---- MODULE Spec2Model ----
(***************************************************************************)
(* A model of Python/data_structures/trees/trie.py: the Trie (prefix tree) *)
(* with insert, search, starts_with, delete, get_all_words_with_prefix and *)
(* count_words.                                                            *)
(*                                                                         *)
(* A TrieNode is a record [children, is_end_of_word].  children is a       *)
(* Python dict, which iterates in insertion order: it is modelled as a     *)
(* sequence of <<char, child node>> pairs with unique keys.  A word is a   *)
(* sequence of characters; the source's 0-based word[index] is             *)
(* word[index + 1] here.                                                   *)
(***************************************************************************)
EXTENDS Integers, Sequences, FiniteSets, TLC

\* ---- bounds of the model -------------------------------------------------
\* longest word handed to an operation
MaxLen == 2
\* most words stored at once (insert of a new word is not offered beyond it)
MaxWords == 2

\* the characters words are made of
Alphabet == {"a", "b"}

\* every word of at most MaxLen characters, the empty word included
Words == UNION {[1..n -> Alphabet] : n \in 0..MaxLen}

\* ---- dict (node.children) ------------------------------------------------
\* char in d
dict_has(d, k) == \E i \in 1..Len(d) : d[i][1] = k

\* d[char]  (only used when char in d)
dict_get(d, k) == d[CHOOSE i \in 1..Len(d) : d[i][1] = k][2]

\* d[char] = v done as removal and re-insertion: an existing key moves last
dict_set_moves_last(d, k, v) ==
    Append(SelectSeq(d, LAMBDA e : e[1] # k), <<k, v>>)

\* d[char] = v : an existing key keeps its position, a new key goes last
dict_set(d, k, v) ==
    IF dict_has(d, k)
    THEN [i \in 1..Len(d) |-> IF d[i][1] = k THEN <<k, v>> ELSE d[i]]
    ELSE Append(d, <<k, v>>)

\* del d[char]
dict_del(d, k) == SelectSeq(d, LAMBDA e : e[1] # k)

\* ---- TrieNode ------------------------------------------------------------
\* TrieNode() with the flag initialised to True
TrieNode_marked == [children |-> <<>>, is_end_of_word |-> TRUE]

\* TrieNode(): no children, not the end of a word
TrieNode == [children |-> <<>>, is_end_of_word |-> FALSE]

\* ---- Trie.insert ---------------------------------------------------------
RECURSIVE insert_from_marks_path(_, _, _)
\* insert with the flag set inside the loop: every node on the path is marked
insert_from_marks_path(node, word, index) ==
    IF index = Len(word)
    THEN [node EXCEPT !.is_end_of_word = TRUE]
    ELSE LET char == word[index + 1]
             children1 == IF ~dict_has(node.children, char)
                          THEN dict_set(node.children, char, TrieNode)
                          ELSE node.children
         IN  [node EXCEPT !.is_end_of_word = (index > 0) \/ @,
                          !.children =
                 dict_set(children1, char,
                          insert_from_marks_path(dict_get(children1, char), word, index + 1))]

RECURSIVE insert_from(_, _, _)
\* the loop of insert from position index on, run at node
insert_from(node, word, index) ==
    IF index = Len(word)
    THEN [node EXCEPT !.is_end_of_word = TRUE]
    ELSE LET char == word[index + 1]
             children1 == IF ~dict_has(node.children, char)
                          THEN dict_set(node.children, char, TrieNode)
                          ELSE node.children
         IN  [node EXCEPT !.children =
                 dict_set(children1, char,
                          insert_from(dict_get(children1, char), word, index + 1))]

\* insert returning early on the empty word: the root is never marked
insert_ignores_empty(rt, word) ==
    IF Len(word) = 0 THEN rt ELSE insert_from(rt, word, 0)

\* the root after insert(word)
insert(rt, word) == insert_from(rt, word, 0)

\* ---- Trie.search / Trie.starts_with --------------------------------------
RECURSIVE search_from(_, _, _)
search_from(node, word, index) ==
    IF index = Len(word)
    THEN node.is_end_of_word
    ELSE LET char == word[index + 1]
         IN  IF ~dict_has(node.children, char)
             THEN FALSE
             ELSE search_from(dict_get(node.children, char), word, index + 1)

search(rt, word) == search_from(rt, word, 0)

RECURSIVE starts_with_from_as_search(_, _, _)
\* starts_with ending like search: the prefix node has to end a word
starts_with_from_as_search(node, prefix, index) ==
    IF index = Len(prefix)
    THEN node.is_end_of_word
    ELSE LET char == prefix[index + 1]
         IN  IF ~dict_has(node.children, char)
             THEN FALSE
             ELSE starts_with_from_as_search(dict_get(node.children, char), prefix, index + 1)

RECURSIVE starts_with_from(_, _, _)
starts_with_from(node, prefix, index) ==
    IF index = Len(prefix)
    THEN TRUE
    ELSE LET char == prefix[index + 1]
         IN  IF ~dict_has(node.children, char)
             THEN FALSE
             ELSE starts_with_from(dict_get(node.children, char), prefix, index + 1)

starts_with(rt, prefix) == starts_with_from(rt, prefix, 0)

\* ---- Trie.delete ---------------------------------------------------------
RECURSIVE delete_helper_prunes_terminal(_, _, _)
\* _delete_helper without "and not node.is_end_of_word": a childless node that
\* ends another word is handed to its parent for deletion
delete_helper_prunes_terminal(node, word, index) ==
    IF index = Len(word)
    THEN IF ~node.is_end_of_word
         THEN [node |-> node, ret |-> FALSE, calls |-> 1]
         ELSE [node |-> [node EXCEPT !.is_end_of_word = FALSE],
               ret |-> Len(node.children) = 0,
               calls |-> 1]
    ELSE LET char == word[index + 1]
         IN  IF ~dict_has(node.children, char)
             THEN [node |-> node, ret |-> FALSE, calls |-> 1]
             ELSE LET r == delete_helper_prunes_terminal(
                               dict_get(node.children, char), word, index + 1)
                  IN  IF r.ret
                      THEN LET n2 == [node EXCEPT !.children = dict_del(@, char)]
                           IN  [node |-> n2,
                                ret |-> Len(n2.children) = 0,
                                calls |-> r.calls + 1]
                      ELSE [node |-> [node EXCEPT !.children = dict_set(@, char, r.node)],
                            ret |-> FALSE,
                            calls |-> r.calls + 1]

RECURSIVE delete_helper_always_dels(_, _, _)
\* _delete_helper without the "if should_delete_child" test: the child on the
\* path is unlinked whatever the recursive call answered
delete_helper_always_dels(node, word, index) ==
    IF index = Len(word)
    THEN IF ~node.is_end_of_word
         THEN [node |-> node, ret |-> FALSE, calls |-> 1]
         ELSE [node |-> [node EXCEPT !.is_end_of_word = FALSE],
               ret |-> Len(node.children) = 0,
               calls |-> 1]
    ELSE LET char == word[index + 1]
         IN  IF ~dict_has(node.children, char)
             THEN [node |-> node, ret |-> FALSE, calls |-> 1]
             ELSE LET r == delete_helper_always_dels(
                               dict_get(node.children, char), word, index + 1)
                      n2 == [node EXCEPT !.children = dict_del(@, char)]
                  IN  [node |-> n2,
                       ret |-> Len(n2.children) = 0 /\ ~n2.is_end_of_word,
                       calls |-> r.calls + 1]

RECURSIVE delete_helper_never_prunes(_, _, _)
\* _delete_helper that only unmarks the last node and never asks for a node
\* to be deleted
delete_helper_never_prunes(node, word, index) ==
    IF index = Len(word)
    THEN IF ~node.is_end_of_word
         THEN [node |-> node, ret |-> FALSE, calls |-> 1]
         ELSE [node |-> [node EXCEPT !.is_end_of_word = FALSE],
               ret |-> FALSE,
               calls |-> 1]
    ELSE LET char == word[index + 1]
         IN  IF ~dict_has(node.children, char)
             THEN [node |-> node, ret |-> FALSE, calls |-> 1]
             ELSE LET r == delete_helper_never_prunes(
                               dict_get(node.children, char), word, index + 1)
                  IN  [node |-> [node EXCEPT !.children = dict_set(@, char, r.node)],
                       ret |-> FALSE,
                       calls |-> r.calls + 1]

RECURSIVE delete_helper_prunes_leaf_only(_, _, _)
\* _delete_helper returning False after "del node.children[char]": only the
\* last node of the word is unlinked, its emptied ancestors stay
delete_helper_prunes_leaf_only(node, word, index) ==
    IF index = Len(word)
    THEN IF ~node.is_end_of_word
         THEN [node |-> node, ret |-> FALSE, calls |-> 1]
         ELSE [node |-> [node EXCEPT !.is_end_of_word = FALSE],
               ret |-> Len(node.children) = 0,
               calls |-> 1]
    ELSE LET char == word[index + 1]
         IN  IF ~dict_has(node.children, char)
             THEN [node |-> node, ret |-> FALSE, calls |-> 1]
             ELSE LET r == delete_helper_prunes_leaf_only(
                               dict_get(node.children, char), word, index + 1)
                  IN  IF r.ret
                      THEN [node |-> [node EXCEPT !.children = dict_del(@, char)],
                            ret |-> FALSE,
                            calls |-> r.calls + 1]
                      ELSE [node |-> [node EXCEPT !.children = dict_set(@, char, r.node)],
                            ret |-> FALSE,
                            calls |-> r.calls + 1]

RECURSIVE delete_helper(_, _, _)
\* _delete_helper: node is the node as the call leaves it, ret the value it
\* returns (should the caller delete this node), calls the number of times
\* the helper was entered
delete_helper(node, word, index) ==
    IF index = Len(word)
    THEN IF ~node.is_end_of_word
         THEN [node |-> node, ret |-> FALSE, calls |-> 1]
         ELSE [node |-> [node EXCEPT !.is_end_of_word = FALSE],
               ret |-> Len(node.children) = 0,
               calls |-> 1]
    ELSE LET char == word[index + 1]
         IN  IF ~dict_has(node.children, char)
             THEN [node |-> node, ret |-> FALSE, calls |-> 1]
             ELSE LET r == delete_helper(dict_get(node.children, char), word, index + 1)
                  IN  IF r.ret
                      THEN LET n2 == [node EXCEPT !.children = dict_del(@, char)]
                           IN  [node |-> n2,
                                ret |-> Len(n2.children) = 0 /\ ~n2.is_end_of_word,
                                calls |-> r.calls + 1]
                      ELSE [node |-> [node EXCEPT !.children = dict_set(@, char, r.node)],
                            ret |-> FALSE,
                            calls |-> r.calls + 1]

\* the root after delete(word): the helper's verdict on the root is dropped
delete_root(rt, word) == delete_helper(rt, word, 0).node

\* the value delete(word) returns:
\*   not _delete_helper(self.root, word, 0) or self.search(word) is False
delete_ret(rt, word) ==
    LET r == delete_helper(rt, word, 0)
    IN  (~r.ret) \/ (search(r.node, word) = FALSE)

\* ---- Trie.get_all_words_with_prefix --------------------------------------
RECURSIVE get_all_words(_, _)
RECURSIVE get_all_words_children(_, _, _)
\* _get_all_words appending the node's own word after the loop over its
\* children
get_all_words_postorder(node, current_word) ==
    get_all_words_children(node, current_word, 1)
        \o (IF node.is_end_of_word THEN <<current_word>> ELSE <<>>)

\* _get_all_words: the words appended to the list, in order
get_all_words(node, current_word) ==
    (IF node.is_end_of_word THEN <<current_word>> ELSE <<>>)
        \o get_all_words_children(node, current_word, 1)

\* the for loop over node.children.items(), from the k-th item on
get_all_words_children(node, current_word, k) ==
    IF k > Len(node.children)
    THEN <<>>
    ELSE get_all_words(node.children[k][2], Append(current_word, node.children[k][1]))
             \o get_all_words_children(node, current_word, k + 1)

RECURSIVE get_all_from_skips_prefix(_, _, _)
\* the collection started at the children of the prefix node: the prefix
\* itself is never emitted
get_all_from_skips_prefix(node, prefix, index) ==
    IF index = Len(prefix)
    THEN get_all_words_children(node, prefix, 1)
    ELSE LET char == prefix[index + 1]
         IN  IF ~dict_has(node.children, char)
             THEN <<>>
             ELSE get_all_from_skips_prefix(dict_get(node.children, char), prefix, index + 1)

RECURSIVE get_all_from(_, _, _)
\* the walk to the prefix node, then the collection
get_all_from(node, prefix, index) ==
    IF index = Len(prefix)
    THEN get_all_words(node, prefix)
    ELSE LET char == prefix[index + 1]
         IN  IF ~dict_has(node.children, char)
             THEN <<>>
             ELSE get_all_from(dict_get(node.children, char), prefix, index + 1)

get_all_words_with_prefix(rt, prefix) == get_all_from(rt, prefix, 0)

\* ---- Trie.count_words ----------------------------------------------------
RECURSIVE count_helper(_)
RECURSIVE count_children(_, _)
\* _count_helper counting every node, not only the ends of words
count_helper_every_node(node) ==
    1 + count_children(node, 1)

count_helper(node) ==
    (IF node.is_end_of_word THEN 1 ELSE 0) + count_children(node, 1)

\* the for loop over node.children.values(), from the k-th value on
count_children(node, k) ==
    IF k > Len(node.children)
    THEN 0
    ELSE count_helper(node.children[k][2]) + count_children(node, k + 1)

count_words(rt) == count_helper(rt)

\* ---- state ---------------------------------------------------------------
VARIABLES
    root,          \* self.root, the whole tree
    op,            \* the last operation called
    arg,           \* its argument
    ret,           \* the value it returned
    pre,           \* self.root as it was when the operation was called
    helper_calls,  \* how often the last delete entered _delete_helper
    present        \* the set of words an abstract set would hold

vars == <<root, op, arg, ret, pre, helper_calls, present>>

\* Trie(): an empty root node
Init ==
    /\ root = TrieNode
    /\ op = "init"
    /\ arg = <<>>
    /\ ret = "None"
    /\ pre = TrieNode
    /\ helper_calls = 0
    /\ present = {}

Insert(w) ==
    /\ search(root, w) \/ count_words(root) < MaxWords
    /\ root' = insert(root, w)
    /\ op' = "insert"
    /\ arg' = w
    /\ ret' = "None"
    /\ pre' = root
    /\ helper_calls' = 0
    /\ present' = present \cup {w}

Delete(w) ==
    /\ root' = delete_root(root, w)
    /\ op' = "delete"
    /\ arg' = w
    /\ ret' = delete_ret(root, w)
    /\ pre' = root
    /\ helper_calls' = delete_helper(root, w, 0).calls
    /\ present' = present \ {w}

RECURSIVE walk_setdefault(_, _, _)
\* a walk that links a new node for every missing character
\* (node.children.setdefault(char, TrieNode())) and marks nothing
walk_setdefault(node, word, index) ==
    IF index = Len(word)
    THEN node
    ELSE LET char == word[index + 1]
             children1 == IF ~dict_has(node.children, char)
                          THEN dict_set(node.children, char, TrieNode)
                          ELSE node.children
         IN  [node EXCEPT !.children =
                 dict_set(children1, char,
                          walk_setdefault(dict_get(children1, char), word, index + 1))]

\* search walking with setdefault: the nodes it misses are created
Search_creates_nodes(w) ==
    /\ op' = "search"
    /\ arg' = w
    /\ ret' = search(root, w)
    /\ pre' = root
    /\ helper_calls' = 0
    /\ root' = walk_setdefault(root, w, 0)
    /\ UNCHANGED present

Search(w) ==
    /\ op' = "search"
    /\ arg' = w
    /\ ret' = search(root, w)
    /\ pre' = root
    /\ helper_calls' = 0
    /\ UNCHANGED <<root, present>>

StartsWith(p) ==
    /\ op' = "starts_with"
    /\ arg' = p
    /\ ret' = starts_with(root, p)
    /\ pre' = root
    /\ helper_calls' = 0
    /\ UNCHANGED <<root, present>>

GetAllWordsWithPrefix(p) ==
    /\ op' = "get_all_words_with_prefix"
    /\ arg' = p
    /\ ret' = get_all_words_with_prefix(root, p)
    /\ pre' = root
    /\ helper_calls' = 0
    /\ UNCHANGED <<root, present>>

CountWords ==
    /\ op' = "count_words"
    /\ arg' = <<>>
    /\ ret' = count_words(root)
    /\ pre' = root
    /\ helper_calls' = 0
    /\ UNCHANGED <<root, present>>

Next ==
    \/ \E w \in Words : Insert(w)
    \/ \E w \in Words : Delete(w)
    \/ \E w \in Words : Search(w)
    \/ \E p \in Words : StartsWith(p)
    \/ \E p \in Words : GetAllWordsWithPrefix(p)
    \/ CountWords

Spec == Init /\ [][Next]_vars

\* ---- helpers of the properties -------------------------------------------
\* p is a prefix of w
IsPrefix(p, w) == Len(p) <= Len(w) /\ SubSeq(w, 1, Len(p)) = p

\* the words search finds in the tree rt
Stored(rt) == {w \in Words : search(rt, w)}

\* the elements of a sequence
Range(s) == {s[i] : i \in 1..Len(s)}

\* p is a proper prefix of w
IsProperPrefix(p, w) == IsPrefix(p, w) /\ p # w

\* ---- C1 ------------------------------------------------------------------
\* C1: delete(w) returns true if and only if w was present (search(w) true)
\* immediately before the call; it returns false when w is absent.
C1_DeleteReturnsWhetherPresent ==
    op = "delete" => (ret = search(pre, arg))

\* ---- C2 ------------------------------------------------------------------
\* C2: the trie refines a set of words: after any sequence of insert and
\* delete calls, search(w) is true exactly for the words of the abstract set
\* (insert adds w to it, delete removes w from it).
C2_RefinesSet ==
    \A w \in Words : search(root, w) <=> (w \in present)

\* a proper prefix of a stored word was stored too and has just been deleted
C2_Witness ==
    /\ op = "delete"
    /\ search(pre, arg)
    /\ \E w \in present : IsProperPrefix(arg, w)

\* ---- C3 ------------------------------------------------------------------
\* C3: delete isolation: delete(w) leaves search(v) as it was for every word
\* v other than w, and search(w) is false after it.
C3_DeleteIsolation ==
    op = "delete" =>
        /\ ~search(root, arg)
        /\ \A v \in Words \ {arg} : search(root, v) = search(pre, v)

\* a stored word that is a proper prefix of another stored word was deleted
C3_Witness ==
    /\ op = "delete"
    /\ search(pre, arg)
    /\ \E v \in Stored(root) : IsProperPrefix(arg, v)

\* ---- C4 ------------------------------------------------------------------
\* C4: delete(w) of a word that is absent (its path breaks, or its final node
\* is not the end of a word) leaves the whole tree as it was.
C4_DeleteAbsentNoChange ==
    (op = "delete" /\ ~search(pre, arg)) => root = pre

\* delete of a word whose path exists but whose final node ends no word,
\* in a tree that holds a word
C4_Witness ==
    /\ op = "delete"
    /\ ~search(pre, arg)
    /\ arg # <<>>
    /\ starts_with(pre, arg)
    /\ Stored(root) # {}

\* ---- C5 ------------------------------------------------------------------
\* C5: get_all_words_with_prefix(p) returns exactly the stored words that
\* start with p, each once, and the empty list when p has no path.
C5_EnumerationExact ==
    op = "get_all_words_with_prefix" =>
        /\ Range(ret) = {w \in Stored(root) : IsPrefix(arg, w)}
        /\ \A i, j \in 1..Len(ret) : ret[i] = ret[j] => i = j
        /\ ~starts_with(root, arg) => ret = <<>>

\* the prefix is itself a stored word and a longer word starts with it
C5_Witness ==
    /\ op = "get_all_words_with_prefix"
    /\ arg # <<>>
    /\ search(root, arg)
    /\ Len(ret) >= 2

\* ---- C6 ------------------------------------------------------------------
\* C6: count_words() is the number of distinct stored words; inserting a
\* word that is already stored leaves the count as it was; the count is 0
\* when nothing is stored.
C6_CountConsistent ==
    /\ op = "count_words" => ret = Cardinality(Stored(root))
    /\ (op = "insert" /\ search(pre, arg)) => count_words(root) = count_words(pre)
    /\ Stored(root) = {} => count_words(root) = 0

\* count_words called on a tree that holds MaxWords words
C6_Witness ==
    /\ op = "count_words"
    /\ ret = MaxWords

\* ---- C7 ------------------------------------------------------------------
\* C7: whenever delete(w) returns true, count_words() after the call is
\* count_words() before the call minus one.
C7_DeleteDecrementsCount ==
    (op = "delete" /\ ret = TRUE) => count_words(root) = count_words(pre) - 1

\* ---- C8 ------------------------------------------------------------------
\* C8: starts_with(p) is true exactly when some stored word starts with p,
\* that is when get_all_words_with_prefix(p) is not empty.
C8_StartsWithIffSomeWord ==
    op = "starts_with" =>
        /\ ret <=> (\E w \in Stored(root) : IsPrefix(arg, w))
        /\ ret <=> (get_all_words_with_prefix(root, arg) # <<>>)

\* ---- C9 ------------------------------------------------------------------
\* C9: prefix monotonicity: if search(w) is true then starts_with(w[0:k]) is
\* true for every k from 0 to len(w).
C9_PrefixMonotone ==
    /\ \A w \in Words : search(root, w) =>
           \A k \in 0..Len(w) : starts_with(root, SubSeq(w, 1, k))
    /\ (op = "starts_with" /\ \E w \in Stored(root) : IsPrefix(arg, w)) => ret = TRUE

\* starts_with called with a proper, non-empty prefix of a stored word that
\* is not stored itself
C9_Witness ==
    /\ op = "starts_with"
    /\ arg # <<>>
    /\ ~search(root, arg)
    /\ \E w \in Stored(root) : IsProperPrefix(arg, w)

\* ---- C10 -----------------------------------------------------------------
\* C10: insert is idempotent: insert(w) of a stored word leaves the tree as
\* it was, and a second insert(w) after a first yields the same tree.
C10_InsertIdempotent ==
    /\ (op = "insert" /\ search(pre, arg)) => root = pre
    /\ op = "insert" => insert(root, arg) = root

\* insert of a word that is stored and has a longer stored word below it
C10_Witness ==
    /\ op = "insert"
    /\ search(pre, arg)
    /\ \E v \in Stored(pre) : IsProperPrefix(arg, v)

\* ---- C11 -----------------------------------------------------------------
\* C11: on a freshly constructed trie count_words() is 0, search(w) is false
\* for every word w and get_all_words_with_prefix("") is the empty list.
C11_FreshTrieEmpty ==
    /\ root = TrieNode =>
           /\ count_words(root) = 0
           /\ \A w \in Words : ~search(root, w)
           /\ get_all_words_with_prefix(root, <<>>) = <<>>
    /\ (pre = TrieNode /\ op = "count_words") => ret = 0
    /\ (pre = TrieNode /\ op = "search") => ret = FALSE
    /\ (pre = TrieNode /\ op = "get_all_words_with_prefix" /\ arg = <<>>) => ret = <<>>

\* get_all_words_with_prefix("") called on the trie as constructed
C11_Witness ==
    /\ op = "get_all_words_with_prefix"
    /\ arg = <<>>
    /\ pre = TrieNode
    /\ present = {}

\* ---- C13 -----------------------------------------------------------------
RECURSIVE NoDanglingBelow(_)
\* no node below this one has zero children and is_end_of_word = False
NoDanglingBelow(node) ==
    \A k \in 1..Len(node.children) :
        LET child == node.children[k][2]
        IN  /\ Len(child.children) > 0 \/ child.is_end_of_word
            /\ NoDanglingBelow(child)

\* C13: invariant I2: no node other than the root has zero children and is
\* not the end of a word; every node other than the root lies on the path of
\* a stored word.
C13_NoDanglingLeaf ==
    /\ NoDanglingBelow(root)
    /\ \A p \in Words \ {<<>>} :
           starts_with(root, p) => \E w \in Stored(root) : IsPrefix(p, w)

\* a stored word of two characters was deleted, its last node was pruned and
\* another word is still stored
C13_Witness ==
    /\ op = "delete"
    /\ search(pre, arg)
    /\ Len(arg) = 2
    /\ ~starts_with(root, arg)
    /\ Stored(root) # {}

\* ---- C14 -----------------------------------------------------------------
\* C14: the root node always exists, delete keeps it even when the helper
\* answers that the root should be deleted, insert("") marks it, and it is
\* the end of a word exactly when the empty word is stored.
C14_RootTerminalIffEmptyWord ==
    /\ DOMAIN root = {"children", "is_end_of_word"}
    /\ root.is_end_of_word <=> (<<>> \in present)
    /\ (op = "insert" /\ arg = <<>>) => root.is_end_of_word
    /\ (op = "delete" /\ delete_helper(pre, arg, 0).ret) => root = TrieNode

\* the last stored word, not the empty one, was deleted: the helper answered
\* that the root should be deleted
C14_Witness ==
    /\ op = "delete"
    /\ arg # <<>>
    /\ delete_helper(pre, arg, 0).ret

\* ---- C15 -----------------------------------------------------------------
RECURSIVE SameShape(_, _)
\* the two nodes have the same flag, the same child symbols, and children of
\* the same shape under each symbol (the order of the children set aside)
SameShape(n1, n2) ==
    /\ n1.is_end_of_word = n2.is_end_of_word
    /\ {n1.children[i][1] : i \in 1..Len(n1.children)}
           = {n2.children[i][1] : i \in 1..Len(n2.children)}
    /\ \A i \in 1..Len(n1.children) :
           SameShape(n1.children[i][2], dict_get(n2.children, n1.children[i][1]))

\* the orders in which the words of S can be inserted
Orders(S) == {f \in [1..Cardinality(S) -> S] : Range(f) = S}

RECURSIVE InsertAll(_, _)
\* the root of a new trie after insert(ws[1]), ..., insert(ws[k])
InsertAll(ws, k) ==
    IF k = 0 THEN TrieNode ELSE insert(InsertAll(ws, k - 1), ws[k])

\* C15: two tries with the same nodes, child symbols and flags, reached by
\* different sequences of calls, enumerate the same words in the same order
\* for every prefix.
C15_EnumerationOrderConsistent ==
    \A ws \in Orders(Stored(root)) :
        LET other == InsertAll(ws, Len(ws))
        IN  SameShape(root, other) =>
                \A p \in Words :
                    get_all_words_with_prefix(root, p)
                        = get_all_words_with_prefix(other, p)

\* ---- C16 -----------------------------------------------------------------
\* C16: insert/delete round trip: for a word w that is absent, insert(w)
\* followed by delete(w) gives back the tree as it was before the insert:
\* the same nodes, children in the same order, the same flags.
C16_InsertDeleteRoundTrip ==
    /\ (op = "insert" /\ ~search(pre, arg)) => delete_root(root, arg) = pre
    /\ \A w \in Words : ~search(root, w) => delete_root(insert(root, w), w) = root

\* a word of two characters that was absent has just been inserted into a
\* trie that already held a word, and new nodes were created for it
C16_Witness ==
    /\ op = "insert"
    /\ ~search(pre, arg)
    /\ Len(arg) = 2
    /\ ~starts_with(pre, arg)
    /\ Stored(pre) # {}

\* ---- C17 -----------------------------------------------------------------
\* C17: enumeration is pre-order: in the list get_all_words_with_prefix(p)
\* returns, a word comes before every longer returned word that extends it;
\* when p itself is stored it is the first element.
C17_EnumerationPreOrder ==
    op = "get_all_words_with_prefix" =>
        /\ \A i, j \in 1..Len(ret) : IsProperPrefix(ret[i], ret[j]) => i < j
        /\ search(root, arg) => (Len(ret) >= 1 /\ ret[1] = arg)

\* the prefix is stored and so is a longer word that extends it
C17_Witness ==
    /\ op = "get_all_words_with_prefix"
    /\ search(root, arg)
    /\ \E v \in Stored(root) : IsProperPrefix(arg, v)

\* ---- C18 -----------------------------------------------------------------
\* the operations that only read
Queries == {"search", "starts_with", "get_all_words_with_prefix", "count_words"}

\* C18: queries are pure: search, starts_with, get_all_words_with_prefix and
\* count_words leave the tree as it was, and so does the search that delete
\* runs for its return value: after delete the tree is the one the helper
\* left.
C18_QueriesPure ==
    /\ op \in Queries => root = pre
    /\ op = "delete" => root = delete_helper(pre, arg, 0).node

\* search of a word whose path does not exist, in a trie that holds a word
C18_Witness ==
    /\ op = "search"
    /\ ~starts_with(root, arg)
    /\ Stored(root) # {}

====
